---- MODULE Spec2Model ----
(***************************************************************************)
(* A model of todo.py, the plain-text task list manager.  Lines and file   *)
(* contents are strings; a file is the string of its bytes, with "\n" as   *)
(* the line terminator, so that read() and write() are the conversions the *)
(* program performs and not the identity.                                  *)
(***************************************************************************)
EXTENDS Integers, Sequences, FiniteSets, TLC

VARIABLES
    file,    \* content of TODO_FILE ("" while the file does not exist)
    exists,  \* TODO_FILE exists
    leftF,   \* content of the merge driver's %A file (left_name)
    rootF,   \* content of the merge driver's %O file (root_name)
    rightF,  \* content of the merge driver's %B file (right_name)
    raw,     \* a collection of raw lines handed to norm()
    now,     \* datetime.now(UTC).strftime("%Y-%m-%d")
    term,    \* os.get_terminal_size(): <<columns, lines>>
    editors, \* the editors os.system() has started and that have not exited,
             \* in the order they were started
    started, \* number of runs of the program started so far
    last     \* what the last operation read, computed, printed and wrote

vars ==
    <<file, exists, leftF, rootF, rightF, raw, now, term, editors, started, last>>

(***************************************************************************)
(* Bounds of the model.                                                    *)
(***************************************************************************)
MaxRaw == 3        \* longest collection of raw lines handed to norm()
MaxCommands == 2   \* most runs of the program in a behaviour
MaxCut == 1        \* most bytes that reach the disk before a write fails

(***************************************************************************)
(* Program constants.                                                      *)
(***************************************************************************)
MIN_CELL_HEIGHT == 10
MIN_CELL_WIDTH == 30
TERM_HEIGHT_OFFSET == 5

(***************************************************************************)
(* Characters and strings as Python's str has them.                        *)
(***************************************************************************)
\* s[i-1] of Python, as a one-character string.
Ch(s, i) == SubSeq(s, i, i)

\* Index of the character c in the string s that holds it.
IndexIn(c, s) == CHOOSE i \in 1..Len(s) : Ch(s, i) = c

\* The white space of str among the ASCII characters, in the order of the
\* code points: U+0009 (\t), U+000A (\n), U+000B, U+000C (\f), U+000D (\r),
\* U+001C, U+001D, U+001E, U+001F and U+0020.  The strings of the model are
\* ASCII strings.
WHITESPACE == "\t\n\f\r "

\* ord() of the characters of WHITESPACE, in its order.
WHITESPACE_ORD == <<9, 10, 11, 12, 13, 28, 29, 30, 31, 32>>

\* The characters U+0020 to U+005F, in the order of the code points.
PRINTABLE ==
    " !" \o "\"" \o "#$%&'()*+,-./0123456789:;<=>?@ABCDEFGHIJKLMNOPQRSTUVWXYZ["
         \o "\\" \o "]^_"

\* str.isspace() of one character: what str.strip() removes and what \s of
\* the re module matches.
IsSpace(c) == c \in {Ch(WHITESPACE, i) : i \in 1..Len(WHITESPACE)}

\* \d of the re module, for one ASCII character.
IsDigit(c) == c \in {"0", "1", "2", "3", "4", "5", "6", "7", "8", "9"}

IsLower(c) ==
    c \in {"a", "b", "c", "d", "e", "f", "g", "h", "i", "j", "k", "l", "m",
           "n", "o", "p", "q", "r", "s", "t", "u", "v", "w", "x", "y", "z"}

\* ord(c), for the characters of WHITESPACE, of PRINTABLE and of U+0061 to
\* U+007E.
Ord(c) ==
    CASE IsDigit(c) -> 47 + IndexIn(c, "0123456789")
      [] IsLower(c) -> 96 + IndexIn(c, "abcdefghijklmnopqrstuvwxyz")
      [] IsSpace(c) -> WHITESPACE_ORD[IndexIn(c, WHITESPACE)]
      [] c \in {"{", "|", "}", "~"} -> 122 + IndexIn(c, "{|}~")
      [] OTHER -> 31 + IndexIn(c, PRINTABLE)

\* a < b on str: lexicographic by code point.
RECURSIVE StrLess(_, _)
StrLess(a, b) ==
    IF Len(b) = 0 THEN FALSE
    ELSE IF Len(a) = 0 THEN TRUE
    ELSE IF Head(a) = Head(b) THEN StrLess(Tail(a), Tail(b))
    ELSE Ord(Head(a)) < Ord(Head(b))

RECURSIVE lstrip(_)
lstrip(s) ==
    IF Len(s) > 0 /\ IsSpace(Head(s)) THEN lstrip(Tail(s)) ELSE s

RECURSIVE rstrip(_)
rstrip(s) ==
    IF Len(s) > 0 /\ IsSpace(Ch(s, Len(s)))
    THEN rstrip(SubSeq(s, 1, Len(s) - 1))
    ELSE s

\* str.strip()
strip(s) == rstrip(lstrip(s))

\* sep.join(lines)
RECURSIVE Join(_, _)
Join(lines, sep) ==
    IF Len(lines) = 0 THEN ""
    ELSE IF Len(lines) = 1 THEN lines[1]
    ELSE lines[1] \o sep \o Join(Tail(lines), sep)

\* c * n
RECURSIVE Rep(_, _)
RepTwice(half, c, n) == half \o half \o (IF n % 2 = 1 THEN c ELSE "")
Rep(c, n) ==
    IF n <= 0 THEN ""
    ELSE IF n = 1 THEN c
    ELSE RepTwice(Rep(c, n \div 2), c, n)

\* str(n) for a natural number.
RECURSIVE Str(_)
Str(n) ==
    IF n < 10 THEN Ch("0123456789", n + 1)
    ELSE Str(n \div 10) \o Ch("0123456789", (n % 10) + 1)

\* s.ljust(w) and s.rjust(w)
ljust(s, w) == s \o Rep(" ", w - Len(s))
rjust(s, w) == Rep(" ", w - Len(s)) \o s

\* set(lines)
SetOf(lines) == {lines[i] : i \in 1..Len(lines)}

\* lines.count(x)
Count(x, lines) == Cardinality({i \in 1..Len(lines) : lines[i] = x})

\* list.sort() / sorted() on a list of str.
RECURSIVE Insert(_, _)
Insert(x, s) ==
    IF Len(s) = 0 THEN <<x>>
    ELSE IF StrLess(Head(s), x) THEN <<Head(s)>> \o Insert(x, Tail(s))
    ELSE <<x>> \o s

RECURSIVE sorted(_)
sorted(s) == IF Len(s) = 0 THEN <<>> ELSE Insert(Head(s), sorted(Tail(s)))

(***************************************************************************)
(* Dates.                                                                  *)
(***************************************************************************)
\* DATE_PATTERN.match(line): ^\d{4}-\d{2}-\d{2}(?= )
DATE_PATTERN(line) ==
    /\ Len(line) >= 11
    /\ \A i \in {1, 2, 3, 4, 6, 7, 9, 10} : IsDigit(Ch(line, i))
    /\ Ch(line, 5) = "-"
    /\ Ch(line, 8) = "-"
    /\ Ch(line, 11) = " "

\* A date_wrap that stamps every line, dated or not.
date_wrap_always(line, today) == today \o " " \o line

date_wrap(line, today) ==
    IF DATE_PATTERN(line) THEN line ELSE today \o " " \o line

(***************************************************************************)
(* Normalization.                                                          *)
(***************************************************************************)
\* A dedupe that keeps every line.
dedupe_none(lines) == lines

\* dedupe(lines): the loop, with prev carried along.
RECURSIVE dedupe_from(_, _)
dedupe_from(lines, prev) ==
    IF Len(lines) = 0 THEN <<>>
    ELSE IF Head(lines) # prev
         THEN <<Head(lines)>> \o dedupe_from(Tail(lines), Head(lines))
         ELSE dedupe_from(Tail(lines), prev)

dedupe(lines) == dedupe_from(lines, "")

\* The body of norm()'s first loop for a stripped line: what it appends,
\* today being the date of the clock when the line is reached.
norm_append(line, today) ==
    IF Len(line) > 0 THEN <<date_wrap(line, today)>> ELSE <<>>

\* date_wrap(line) is called and reads the clock: the stripped line is not
\* empty and bears no date.
reads_clock(line) == Len(line) > 0 /\ ~DATE_PATTERN(line)

\* The number of times norm(lines) reads the clock.
RECURSIVE clock_reads(_)
clock_reads(lines) ==
    IF Len(lines) = 0 THEN 0
    ELSE (IF reads_clock(strip(Head(lines))) THEN 1 ELSE 0)
             + clock_reads(Tail(lines))

\* The first loop of norm(): strip, drop the empty, date_wrap.  clock holds
\* the dates that datetime.now(UTC) returns, one for each call and in the
\* order of the calls: every line that bears no date is stamped with the date
\* of its own call.
RECURSIVE norm_wrap(_, _)
norm_step(line, rest, clock) ==
    norm_append(line, Head(clock))
        \o norm_wrap(rest, IF reads_clock(line) /\ Len(clock) > 1
                           THEN Tail(clock) ELSE clock)

norm_wrap(lines, clock) ==
    IF Len(lines) = 0 THEN <<>>
    ELSE norm_step(strip(Head(lines)), Tail(lines), clock)

norm(lines, clock) == dedupe(sorted(norm_wrap(lines, clock)))

(***************************************************************************)
(* The clock.                                                              *)
(***************************************************************************)
Dates == {"2024-01-01", "2024-01-02"}

\* What the clock may show at the n reads of a command that starts on the
\* date `first`: the date may change between any two reads.  A command that
\* does not read the clock has the date it started on.
Clocks(n, first) ==
    {clock \in [1..(IF n = 0 THEN 1 ELSE n) -> Dates] : clock[1] = first}

\* Of the reads `clock` of a command, the n reads that follow the first k;
\* a call that reads nothing has the date of the read before it.
ClockOf(clock, k, n) ==
    IF n = 0 THEN <<clock[IF k = 0 THEN 1 ELSE k]>>
    ELSE SubSeq(clock, k + 1, k + n)

\* The program is run from the shell: one of at most MaxCommands runs.
Started == started < MaxCommands /\ started' = started + 1

\* The UTC date changes.
Tick ==
    /\ now' \in Dates \ {now}
    /\ UNCHANGED <<file, exists, leftF, rootF, rightF, raw, term, editors, started, last>>

(***************************************************************************)
(* SpecNorm: norm() applied, and applied again to its own result, to       *)
(* every collection of at most MaxRaw raw lines.                           *)
(***************************************************************************)
RawLines ==
    { "", "  ", "a", " a ", "b\t", "\fa\r", "2024-01-02 a", "2024-01-01\ta",
      "2024-01-01", " 2024-01-01 b", "2024-1-01 b" }

RECURSIVE SeqsUpTo(_, _)
SeqsUpTo(S, n) ==
    IF n = 0 THEN {<<>>}
    ELSE LET shorter == SeqsUpTo(S, n - 1)
         IN  shorter \cup {Append(s, x) : s \in {t \in shorter : Len(t) = n - 1}, x \in S}

NoOp == [op |-> "init"]

\* No editor is running.
NoEditors == <<>>

InitNorm ==
    /\ raw \in SeqsUpTo(RawLines, MaxRaw)
    /\ now \in Dates
    /\ file = ""
    /\ exists = TRUE
    /\ leftF = ""
    /\ rootF = ""
    /\ rightF = ""
    /\ term = <<0, 0>>
    /\ editors = NoEditors
    /\ started = 0
    /\ last = NoOp

\* raw = norm(raw); the date may change between two reads of the clock.
norm_apply ==
    \E reads \in {clock_reads(raw)} :
    \E clock \in Clocks(reads, now) :
    \E res \in {norm(raw, clock)} :
        /\ raw' = res
        /\ now' = clock[Len(clock)]
        /\ last' = [op |-> "norm", inp |-> raw, res |-> res,
                    clock |-> clock, reads |-> reads,
                    again |-> last.op = "norm",
                    orig |-> IF last.op = "norm" THEN last.orig ELSE raw,
                    first |-> IF last.op = "norm" THEN last.first ELSE clock]
        /\ UNCHANGED <<file, exists, leftF, rootF, rightF, term, editors, started>>

NextNorm == norm_apply \/ Tick

SpecNorm == InitNorm /\ [][NextNorm]_vars

\* C5: normalization is idempotent: norm applied to a result of norm returns
\* that result, also when the current date has changed between the two calls
\* or during the first of them.
NormIdempotent ==
    (last.op = "norm" /\ last.again) => last.res = last.inp

\* norm has been applied to its own result on another date than the first
\* call ended on, where the first input had a blank line, an undated line,
\* surrounding whitespace or a duplicate, so that the first call changed it,
\* and where the date changed during the first call, so that its result
\* bears two dates.
NormIdempotentWitness ==
    /\ last.op = "norm"
    /\ last.again
    /\ last.clock[1] # last.first[Len(last.first)]
    /\ Len(last.orig) = MaxRaw
    /\ Len(last.res) < Len(last.orig)
    /\ \E i \in 1..Len(last.orig) : ~DATE_PATTERN(strip(last.orig[i]))
    /\ \A d \in Dates :
           /\ \E i \in 1..Len(last.first) : last.first[i] = d
           /\ \E i \in 1..Len(last.res) : SubSeq(last.res[i], 1, 10) = d

\* C6: the output of norm is in ascending lexicographic order and holds no
\* line twice.
NormSortedNoDup ==
    last.op = "norm" =>
        /\ \A i \in 1..(Len(last.res) - 1) :
               ~StrLess(last.res[i + 1], last.res[i])
        /\ \A i, j \in 1..Len(last.res) :
               i # j => last.res[i] # last.res[j]

\* norm has returned at least two lines from an input that was out of order
\* and held two lines that normalize to the same line, the date having
\* changed between two reads of the clock.
NormSortedNoDupWitness ==
    /\ last.op = "norm"
    /\ ~last.again
    /\ last.reads >= 2
    /\ \E i \in 1..Len(last.clock) : last.clock[i] # last.clock[1]
    /\ Len(last.res) >= 2
    /\ Len(last.res) < Len(norm_wrap(last.inp, last.clock))
    /\ norm_wrap(last.inp, last.clock) # sorted(norm_wrap(last.inp, last.clock))

(***************************************************************************)
(* Files.                                                                  *)
(***************************************************************************)
\* Index of the first "\n" of s, or 0.
FirstNL(s) ==
    LET at == {i \in 1..Len(s) : Ch(s, i) = "\n"}
    IN  IF at = {} THEN 0 ELSE CHOOSE i \in at : \A j \in at : i <= j

\* Index of the first line end of s, or 0.  open(filename, "r") reads with
\* universal newlines: "\n", "\r\n" and "\r" each end a line.
FirstEOL(s) ==
    LET at == {i \in 1..Len(s) : Ch(s, i) \in {"\n", "\r"}}
    IN  IF at = {} THEN 0 ELSE CHOOSE i \in at : \A j \in at : i <= j

\* The number of characters of the line end at index k of s.
EOLLen(s, k) ==
    IF Ch(s, k) = "\r" /\ k < Len(s) /\ Ch(s, k + 1) = "\n" THEN 2 ELSE 1

\* file.readlines(): the lines, each line end given as "\n"; a last line that
\* has no line end is a line too.
RECURSIVE readlines(_)
\* The first line of s, whose first line end is at k, and the lines after it.
readlines_at(s, k) ==
    IF k = 0 THEN <<s>>
    ELSE <<SubSeq(s, 1, k - 1) \o "\n">>
             \o readlines(SubSeq(s, k + EOLLen(s, k), Len(s)))

readlines(s) == IF Len(s) = 0 THEN <<>> ELSE readlines_at(s, FirstEOL(s))

\* read(filename) of a file that exists and holds s.
read(s) == LET ls == readlines(s) IN [i \in 1..Len(ls) |-> strip(ls[i])]

\* What write(lines, filename) hands to file.write().
write(lines) == Join(lines, "\n") \o "\n"

\* open(filename, "w") truncates the file; of the content, the first `cut`
\* bytes reach the disk.  The write has succeeded when that is all of them.
Written(content, cut) == SubSeq(content, 1, cut)

\* The byte counts a write of content can end at: all of it, or, where the
\* environment lets the write fail, one of `fails`.
Cuts(content, fails) == {Len(content)} \cup {c \in fails : c < Len(content)}

(***************************************************************************)
(* merge(left_name, root_name, right_name)                                 *)
(***************************************************************************)
\* A keep that takes what was in root for what is new.
merge_keep_inverted(left_lines, root_lines, right_lines) ==
    LET left == SetOf(left_lines)
        right == SetOf(right_lines)
        root == SetOf(root_lines)
        unchanged == left \cap right
        diff == (left \cup right) \ unchanged
    IN  unchanged \cup (diff \cap root)

\* A keep whose diff forgets the lines that only right has.
merge_keep_onesided(left_lines, root_lines, right_lines) ==
    LET left == SetOf(left_lines)
        right == SetOf(right_lines)
        root == SetOf(root_lines)
        unchanged == left \cap right
        diff == left \ unchanged
    IN  unchanged \cup (diff \ root)

\* keep, as merge() has it before the loop.
merge_keep(left_lines, root_lines, right_lines) ==
    LET left == SetOf(left_lines)
        right == SetOf(right_lines)
        root == SetOf(root_lines)
        unchanged == left \cap right
        diff == (left \cup right) \ unchanged
        new == diff \ root
    IN  unchanged \cup new

\* A loop that leaves keep as it is.
RECURSIVE merge_walk_noremove(_, _)
merge_walk_noremove(lines, keep) ==
    IF Len(lines) = 0 THEN <<>>
    ELSE IF Head(lines) \in keep
         THEN <<Head(lines)>> \o merge_walk_noremove(Tail(lines), keep)
         ELSE merge_walk_noremove(Tail(lines), keep)

\* The loop of merge() over left_lines + right_lines.
RECURSIVE merge_walk(_, _)
merge_walk(lines, keep) ==
    IF Len(lines) = 0 THEN <<>>
    ELSE IF Head(lines) \in keep
         THEN <<Head(lines)>> \o merge_walk(Tail(lines), keep \ {Head(lines)})
         ELSE merge_walk(Tail(lines), keep)

\* result, as merge() hands it to write().
merge_result(left_lines, root_lines, right_lines) ==
    merge_walk(left_lines \o right_lines,
               merge_keep(left_lines, root_lines, right_lines))

merge(fails) ==
    /\ Started
    /\ \E left_lines \in {read(leftF)} :
       \E right_lines \in {read(rightF)} :
       \E root_lines \in {read(rootF)} :
       \E result \in {merge_result(left_lines, root_lines, right_lines)} :
       \E content \in {write(result)} :
       \E cut \in Cuts(content, fails) :
           /\ leftF' = Written(content, cut)
           /\ last' = [op |-> "merge", left_lines |-> left_lines,
                       root_lines |-> root_lines, right_lines |-> right_lines,
                       result |-> result, pre |-> leftF, new |-> content,
                       wrote |-> TRUE, ok |-> cut = Len(content)]
           /\ UNCHANGED <<file, exists, rootF, rightF, raw, now, term, editors>>

(***************************************************************************)
(* SpecMerge: the merge driver on every triple of the files below; git may *)
(* run it again on its own result.                                         *)
(***************************************************************************)
MergeFiles ==
    { "", "a\n", "a\nb\n", "b\na\nb\n", "c\r\na\r\n", "b\nc\nc", "d\nc\nb\n" }

InitMerge ==
    /\ leftF \in MergeFiles
    /\ rootF \in MergeFiles
    /\ rightF \in MergeFiles
    /\ file = ""
    /\ exists = TRUE
    /\ raw = <<>>
    /\ now \in Dates
    /\ term = <<0, 0>>
    /\ editors = NoEditors
    /\ started = 0
    /\ last = NoOp

\* git checks out another revision of the other branch.
checkout_right ==
    /\ last.op = "merge"
    /\ rightF' \in MergeFiles \ {rightF}
    /\ UNCHANGED <<file, exists, leftF, rootF, raw, now, term, editors, started, last>>

NextMerge == merge({}) \/ checkout_right

SpecMerge == InitMerge /\ [][NextMerge]_vars

\* Index of the first occurrence of x in lines, or 0.
FirstAt(x, lines) ==
    LET at == {i \in 1..Len(lines) : lines[i] = x}
    IN  IF at = {} THEN 0 ELSE CHOOSE i \in at : \A j \in at : i <= j

\* C2: the set of lines merge writes is (left & right) | (((left | right) -
\* (left & right)) - root): a line of exactly one side is kept iff it is not
\* in root, and no line written is in neither left nor right.
MergeKeepsNotProvenDeleted ==
    last.op = "merge" =>
        LET L == SetOf(last.left_lines)
            R == SetOf(last.right_lines)
            O == SetOf(last.root_lines)
            W == SetOf(last.result)
        IN  /\ W = (L \cap R) \cup (((L \cup R) \ (L \cap R)) \ O)
            /\ \A x \in (L \cup R) \ (L \cap R) : x \in W <=> x \notin O
            /\ W \subseteq L \cup R

\* A merge has dropped a line that one side deleted, kept a line that one
\* side added and kept a line that both sides have.
MergeKeepsWitness ==
    /\ last.op = "merge"
    /\ LET L == SetOf(last.left_lines)
           R == SetOf(last.right_lines)
           O == SetOf(last.root_lines)
           W == SetOf(last.result)
       IN  /\ \E x \in (L \cup R) \ (L \cap R) : x \in O /\ x \notin W
           /\ \E x \in (L \cup R) \ (L \cap R) : x \notin O /\ x \in W
           /\ \E x \in L \cap R : x \in W

\* C8: merge(left, root, right) and merge(right, root, left) write the same
\* set of lines.
MergeCommutes ==
    last.op = "merge" =>
        SetOf(last.result) =
            SetOf(merge_result(last.right_lines, last.root_lines, last.left_lines))

\* A merge of two sides that differ, each with a line the other lacks, has
\* written lines in an order the swapped merge does not.
MergeCommutesWitness ==
    /\ last.op = "merge"
    /\ SetOf(last.left_lines) \ SetOf(last.right_lines) # {}
    /\ SetOf(last.right_lines) \ SetOf(last.left_lines) # {}
    /\ Len(last.result) >= 2
    /\ last.result #
           merge_result(last.right_lines, last.root_lines, last.left_lines)

\* C9: the result holds each kept line once; the kept lines of left come
\* first, in the order of their first occurrence in left, then the kept
\* lines that only right has, in the order of their first occurrence in right.
MergeOrder ==
    last.op = "merge" =>
        LET res == last.result
            L == last.left_lines
            R == last.right_lines
            keep == (SetOf(L) \cap SetOf(R))
                        \cup (((SetOf(L) \cup SetOf(R)) \ (SetOf(L) \cap SetOf(R)))
                                  \ SetOf(last.root_lines))
        IN  /\ \A x \in keep : Count(x, res) = 1
            /\ \A i, j \in 1..Len(res) :
                   i < j =>
                       /\ res[j] \in SetOf(L) => res[i] \in SetOf(L)
                       /\ (res[i] \in SetOf(L) /\ res[j] \in SetOf(L))
                              => FirstAt(res[i], L) < FirstAt(res[j], L)
                       /\ (res[i] \notin SetOf(L) /\ res[j] \notin SetOf(L))
                              => FirstAt(res[i], R) < FirstAt(res[j], R)

\* A merge has kept a line that left holds twice, a line that both sides
\* hold, and two lines that only right has.
MergeOrderWitness ==
    /\ last.op = "merge"
    /\ \E x \in SetOf(last.result) : Count(x, last.left_lines) >= 2
    /\ \E x \in SetOf(last.result) :
           x \in SetOf(last.left_lines) /\ x \in SetOf(last.right_lines)
    /\ Cardinality(SetOf(last.result) \ SetOf(last.left_lines)) >= 2

(***************************************************************************)
(* Tags.                                                                   *)
(***************************************************************************)
\* TAG_PATTERN matches at index p of s: (?<!\S@)(?<=@)\S+ -- the character
\* before p is "@", the one before that (if any) is whitespace, and a
\* non-whitespace character stands at p.
TagAt(s, p) ==
    /\ p >= 2
    /\ p <= Len(s)
    /\ Ch(s, p - 1) = "@"
    /\ ~(p >= 3 /\ ~IsSpace(Ch(s, p - 2)))
    /\ ~IsSpace(Ch(s, p))

\* Index of the last character of the run \S+ that starts at p.
RECURSIVE RunEnd(_, _)
RunEnd(s, p) ==
    IF p < Len(s) /\ ~IsSpace(Ch(s, p + 1)) THEN RunEnd(s, p + 1) ELSE p

\* TAG_PATTERN.findall(s), scanning from index p.
RECURSIVE findall_from(_, _)
\* The match from p to e, and the matches after it.
findall_match(s, p, e) == <<SubSeq(s, p, e)>> \o findall_from(s, e + 1)

findall_from(s, p) ==
    IF p > Len(s) THEN <<>>
    ELSE IF TagAt(s, p) THEN findall_match(s, p, RunEnd(s, p))
    ELSE findall_from(s, p + 1)

TAG_PATTERN(line) == findall_from(line, 1)

\* The condition of partition_by_tag's loop, matches being what findall gave.
tag_in(matches, tag) ==
    (Len(matches) = 0 /\ tag = "unfiled") \/ tag \in SetOf(matches)

Matches(line, tag) == tag_in(TAG_PATTERN(line), tag)

\* A loop whose else branch takes only the lines that have no tag at all.
RECURSIVE partition_loop_untagged_rest(_, _, _, _)
partition_loop_untagged_rest(lines, tag, match, rest) ==
    IF Len(lines) = 0 THEN [match |-> match, rest |-> rest]
    ELSE IF Matches(Head(lines), tag)
         THEN partition_loop_untagged_rest(Tail(lines), tag, Append(match, Head(lines)), rest)
         ELSE IF Len(TAG_PATTERN(Head(lines))) = 0
              THEN partition_loop_untagged_rest(Tail(lines), tag, match, Append(rest, Head(lines)))
              ELSE partition_loop_untagged_rest(Tail(lines), tag, match, rest)

\* A partition that loses the lines that bear another tag.
partition_by_tag_untagged_rest(lines, tag) ==
    partition_loop_untagged_rest(lines, tag, <<>>, <<>>)

\* The loop of partition_by_tag, with match and rest as built so far.
RECURSIVE partition_loop(_, _, _, _)
partition_loop(lines, tag, match, rest) ==
    IF Len(lines) = 0 THEN [match |-> match, rest |-> rest]
    ELSE IF Matches(Head(lines), tag)
         THEN partition_loop(Tail(lines), tag, Append(match, Head(lines)), rest)
         ELSE partition_loop(Tail(lines), tag, match, Append(rest, Head(lines)))

partition_by_tag(lines, tag) == partition_loop(lines, tag, <<>>, <<>>)

(***************************************************************************)
(* count_changes(inp, out)                                                 *)
(***************************************************************************)
Max(a, b) == IF a >= b THEN a ELSE b

\* The while loop: n_unchanged when it ends (i, j are Python's i + 1, j + 1).
RECURSIVE count_unchanged(_, _, _, _, _)
count_unchanged(inp, out, i, j, n_unchanged) ==
    IF i <= Len(inp) /\ j <= Len(out)
    THEN IF inp[i] = out[j]
         THEN count_unchanged(inp, out, i + 1, j + 1, n_unchanged + 1)
         ELSE IF StrLess(inp[i], out[j])
              THEN count_unchanged(inp, out, i + 1, j, n_unchanged)
              ELSE count_unchanged(inp, out, i, j + 1, n_unchanged)
    ELSE n_unchanged

\* The return statement, n_unchanged being what the loop counted.
count_result(inp, out, n_unchanged) ==
    Max(Len(inp) - n_unchanged, Len(out) - n_unchanged)

\* count_changes for an out that is sorted already.
count_sorted(inp, out) == count_result(inp, out, count_unchanged(inp, out, 1, 1, 0))

count_changes(inp, out) == count_sorted(inp, sorted(out))

(***************************************************************************)
(* The commands that change the task file.                                 *)
(***************************************************************************)
\* add(line); open(TODO_FILE, "a") makes the file when there is none.
add(text) ==
    LET line == strip(text)
    IN  /\ Started
        /\ IF Len(line) = 0
           THEN /\ UNCHANGED <<file, exists>>
                /\ last' = [op |-> "add", pre |-> file, wrote |-> FALSE]
           ELSE /\ file' = file \o date_wrap(line, now) \o "\n"
                /\ exists' = TRUE
                /\ last' = [op |-> "add", pre |-> file, wrote |-> TRUE]
        /\ UNCHANGED <<leftF, rootF, rightF, raw, now, term, editors>>

\* del lines[k] raises IndexError.
DelRaises(lines, k) == k >= Len(lines) \/ k < 0 - Len(lines)

\* lines after del lines[k] (a negative k counts from the end).
Del(lines, k) ==
    LET at == IF k < 0 THEN k + Len(lines) + 1 ELSE k + 1
    IN  SubSeq(lines, 1, at - 1) \o SubSeq(lines, at + 1, Len(lines))

\* A guard that lets 0 through.
rm_invalid_from_zero(task_number, lines) ==
    task_number < 0 \/ task_number > Len(lines)

\* The guard of rm().
rm_invalid(task_number, lines) ==
    task_number < 1 \/ task_number > Len(lines)

\* What rm() prints or raises when it does not reach write(): read() raises
\* for a file that does not exist, the guard prints, del raises.
rm_out(task_number, lines) ==
    IF ~exists THEN "FileNotFoundError"
    ELSE IF rm_invalid(task_number, lines) THEN "invalid n"
    ELSE IF DelRaises(lines, task_number - 1) THEN "IndexError"
    ELSE ""

rm(task_number, fails) ==
    Started /\
    \E lines \in {read(file)} :
    \E out \in {rm_out(task_number, lines)} :
        IF out # ""
        THEN /\ last' = [op |-> "rm", n |-> task_number, pre |-> file,
                         existed |-> exists, out |-> out,
                         wrote |-> FALSE, new |-> file, ok |-> TRUE]
             /\ UNCHANGED <<file, exists, leftF, rootF, rightF, raw, now,
                            term, editors>>
        ELSE \E content \in {write(Del(lines, task_number - 1))} :
                 \E cut \in Cuts(content, fails) :
                     /\ file' = Written(content, cut)
                     /\ last' = [op |-> "rm", n |-> task_number, pre |-> file,
                                 existed |-> exists, out |-> "",
                                 wrote |-> TRUE, new |-> content,
                                 ok |-> cut = Len(content)]
                     /\ UNCHANGED <<exists, leftF, rootF, rightF, raw, now,
                                    term, editors>>

\* The "norm" command: write(norm(read())).
norm_cmd(fails) ==
    Started /\
    IF ~exists
    THEN /\ last' = [op |-> "norm_cmd", pre |-> file, wrote |-> FALSE,
                     out |-> "FileNotFoundError", new |-> file, ok |-> TRUE]
         /\ UNCHANGED <<file, exists, leftF, rootF, rightF, raw, now, term,
                        editors>>
    ELSE \E clock \in Clocks(clock_reads(read(file)), now) :
         \E content \in {write(norm(read(file), clock))} :
         \E cut \in Cuts(content, fails) :
             /\ file' = Written(content, cut)
             /\ now' = clock[Len(clock)]
             /\ last' = [op |-> "norm_cmd", pre |-> file, wrote |-> TRUE,
                         out |-> "", new |-> content, clock |-> clock,
                         ok |-> cut = Len(content)]
             /\ UNCHANGED <<exists, leftF, rootF, rightF, raw, term, editors>>

\* The lines of a file in reverse order.
Reversed(ls) == [i \in 1..Len(ls) |-> ls[Len(ls) + 1 - i]]

\* The lines of a file as the editor has them: each ends with its "\n".
RECURSIVE editor_lines(_)
editor_lines_at(s, k) ==
    IF k = 0 THEN <<s>>
    ELSE <<SubSeq(s, 1, k)>> \o editor_lines(SubSeq(s, k + 1, Len(s)))

editor_lines(s) == IF Len(s) = 0 THEN <<>> ELSE editor_lines_at(s, FirstNL(s))

\* What the editor may leave in the file it was given: the file as it was, an
\* empty file, the lines in reverse, the first line gone, a line added after
\* the others.
EditorResults(tmp) ==
    { tmp,
      "",
      Join(Reversed(editor_lines(tmp)), ""),
      Join(SubSeq(editor_lines(tmp), 2, Len(editor_lines(tmp))), ""),
      tmp \o "z @t\n" }

\* seq without its i-th element.
Without(seq, i) == SubSeq(seq, 1, i - 1) \o SubSeq(seq, i + 1, Len(seq))

\* edit_tag(tag) as far as os.system() (lines 69-78): the lines are read and
\* partitioned, the matching ones are written to the temporary file and the
\* editor is started on it.  When that write fails (OSError or a subclass of
\* it) no editor is started and TODO_FILE is as it was.  The command then
\* waits for the editor to exit; other commands, an edit among them, may run
\* in the meantime.
edit_tag(tag, fails) ==
    /\ Started
    /\ \E parts \in {partition_by_tag(read(file), tag)} :
       \E tmp \in {write(parts.match)} :
       \E cut \in Cuts(tmp, fails) :
           IF ~exists \/ Len(parts.match) = 0 \/ cut < Len(tmp)
           THEN /\ last' = [op |-> "edit_tag", tag |-> tag, src |-> file,
                            pre |-> file, before |-> parts.match,
                            remaining |-> parts.rest,
                            out |-> IF ~exists THEN "FileNotFoundError"
                                    ELSE IF Len(parts.match) = 0
                                         THEN "No tasks found for tag: " \o tag
                                         ELSE "OSError",
                            wrote |-> FALSE, new |-> file,
                            ok |-> ~exists \/ Len(parts.match) = 0]
                /\ UNCHANGED editors
           ELSE /\ editors' = Append(editors,
                                     [cmd |-> "edit_tag", tag |-> tag,
                                      src |-> file, before |-> parts.match,
                                      remaining |-> parts.rest, tmp |-> tmp])
                /\ last' = [op |-> "os.system", cmd |-> "edit_tag"]
    /\ UNCHANGED <<file, exists, leftF, rootF, rightF, raw, now, term>>

\* edit_tag(tag) from the return of os.system() (lines 79-83): one of the
\* editors has exited, its temporary file is read and normalized, the changes
\* are counted and printed, and the remaining lines read before the editor
\* was started are written back together with the edited ones.  Both calls
\* of norm read the clock for every line that bears no date.
edit_tag_return(fails) ==
    \E i \in 1..Len(editors) :
    \E editor \in {editors[i]} :
        /\ editor.cmd = "edit_tag"
        /\ \E edited \in EditorResults(editor.tmp) :
           \E n_after \in {clock_reads(read(edited))} :
           \E n_remaining \in {clock_reads(editor.remaining)} :
           \E clock \in Clocks(n_after + n_remaining, now) :
           \E after \in {norm(read(edited), ClockOf(clock, 0, n_after))} :
           \E changes \in {count_changes(editor.before, after)} :
           \E content \in {write(norm(editor.remaining \o after,
                                      ClockOf(clock, n_after, n_remaining)))} :
           \E cut \in Cuts(content, fails) :
               /\ file' = Written(content, cut)
               /\ now' = clock[Len(clock)]
               /\ editors' = Without(editors, i)
               /\ last' = [op |-> "edit_tag", tag |-> editor.tag,
                           src |-> editor.src, pre |-> file,
                           before |-> editor.before,
                           remaining |-> editor.remaining,
                           tmp |-> editor.tmp, edited |-> edited,
                           after |-> after, changes |-> changes,
                           out |-> Str(changes) \o " changes",
                           clock |-> clock,
                           stamps |-> ClockOf(clock, n_after, n_remaining),
                           wrote |-> TRUE,
                           new |-> content, ok |-> cut = Len(content)]
        /\ UNCHANGED <<exists, leftF, rootF, rightF, raw, term, started>>

\* edit() (lines 232-234): the lines are counted and the editor is started on
\* TODO_FILE itself, which it loads.
edit ==
    /\ Started
    /\ IF ~exists
       THEN /\ last' = [op |-> "edit", pre |-> file, wrote |-> FALSE,
                        out |-> "FileNotFoundError"]
            /\ UNCHANGED editors
       ELSE /\ editors' = Append(editors,
                                 [cmd |-> "edit", line_nr |-> Len(read(file)),
                                  buf |-> file])
            /\ last' = [op |-> "os.system", cmd |-> "edit"]
    /\ UNCHANGED <<file, exists, leftF, rootF, rightF, raw, now, term>>

\* An editor started by edit() exits (os.system() returns, line 234): it has
\* left the file alone, or has saved over TODO_FILE one of EditorResults of
\* the text it loaded when it started or of the text the file holds now
\* (another command may have written the file since, and the editor may have
\* loaded it again).
edit_return ==
    \E i \in 1..Len(editors) :
    \E editor \in {editors[i]} :
        /\ editor.cmd = "edit"
        /\ \E saved \in EditorResults(editor.buf) \cup EditorResults(file) :
               /\ file' = saved
               /\ last' = [op |-> "edit", pre |-> file, wrote |-> saved # file,
                           out |-> "", buf |-> editor.buf, new |-> saved]
        /\ editors' = Without(editors, i)
        /\ UNCHANGED <<exists, leftF, rootF, rightF, raw, now, term, started>>

(***************************************************************************)
(* Spec: the commands on the task file, from each of the files below.      *)
(***************************************************************************)
TaskFiles ==
    { "",
      "2024-01-02 b @t\n2024-01-01 a @t\n2024-01-01 c\n",
      "2024-01-01 a @t\n2024-01-01 a @t\nx@y z\n",
      "c @u\n\n2024-01-01 a @t @u\n",
      "2024-01-01 a @t\n2024-01-02 b\n",
      "2024-01-01 b @t\r\nc @u\rc @u\r\r" }

AddTexts == { "  ", " d @t" }

Tags == { "t", "u", "unfiled" }

\* TODO_FILE holds one of TaskFiles, or there is no such file yet.
Init ==
    /\ \/ file \in TaskFiles /\ exists = TRUE
       \/ file = "" /\ exists = FALSE
    /\ now \in Dates
    /\ leftF = ""
    /\ rootF = ""
    /\ rightF = ""
    /\ raw = <<>>
    /\ term = <<0, 0>>
    /\ editors = NoEditors
    /\ started = 0
    /\ last = NoOp

Next ==
    \/ \E text \in AddTexts : add(text)
    \/ \E n \in 0..(Len(read(file)) + 1) : rm(n, {})
    \/ norm_cmd({})
    \/ \E tag \in Tags : edit_tag(tag, {})
    \/ edit
    \/ edit_tag_return({})
    \/ edit_return
    \/ Tick

Spec == Init /\ [][Next]_vars

\* C1: rm with an index below 1 or above the number of lines reports an
\* error, writes nothing and leaves the file as it was ("invalid n" for a
\* file that exists, and the error of read() where there is no file).
RmInvalidNoMutation ==
    (last.op = "rm" /\ (last.n < 1 \/ last.n > Len(read(last.pre)))) =>
        /\ file = last.pre
        /\ exists = last.existed
        /\ ~last.wrote
        /\ last.out = IF last.existed THEN "invalid n" ELSE "FileNotFoundError"

\* rm has been given the index len + 1 on a file of three lines.
RmInvalidWitness ==
    /\ last.op = "rm"
    /\ last.existed
    /\ Len(read(last.pre)) = 3
    /\ last.n = 4
    /\ last.out = "invalid n"

\* The lines of the file, as edit_tag read it, that do not match its tag.
NonMatching ==
    LET NoMatch(line) == ~Matches(line, last.tag)
    IN  SelectSeq(read(last.src), NoMatch)

\* lines is in ascending order.
Ascending(lines) ==
    \A i \in 1..(Len(lines) - 1) : ~StrLess(lines[i + 1], lines[i])

\* C3 as claimed: after edit <tag> the lines that did not match the tag are
\* in the file as often as before, unchanged and in their previous order.
EditKeepsRemainder ==
    last.op = "edit_tag" =>
        LET InRemainder(line) == line \in SetOf(NonMatching)
        IN  SelectSeq(read(file), InRemainder) = NonMatching

\* C3 as amended: when the tag matches no line the file is left as it was.
\* Otherwise the file is one empty line when no non-blank line fails to match
\* the tag and the editor left no line; and in every other case the file
\* holds its lines in sorted order and none of them twice, it holds every
\* line with a date that did not match the tag when edit_tag read the file,
\* unchanged, it holds every non-blank line without a date that did not
\* match, stamped with the date the clock showed when norm reached that line
\* (so that two occurrences of such a line are one line of the file when they
\* were reached on one date and two lines when the date changed in between),
\* and it holds no line but these and the normalized lines the editor left,
\* whatever the file held when the editor exited.
Renormalized(rest, after, stamps, lines) ==
    LET Dated(line) == DATE_PATTERN(line)
        Undated(line) == Len(line) > 0 /\ ~DATE_PATTERN(line)
        dated == SelectSeq(rest, Dated)
        undated == SelectSeq(rest, Undated)
    IN  /\ Ascending(lines)
        /\ \A x \in SetOf(lines) : Count(x, lines) = 1
        /\ \A i \in 1..Len(dated) : dated[i] \in SetOf(lines)
        /\ \A k \in 1..Len(undated) :
               /\ k <= Len(stamps)
               /\ stamps[k] \o " " \o undated[k] \in SetOf(lines)
        /\ \A x \in SetOf(lines) :
               \/ x \in SetOf(after)
               \/ x \in SetOf(dated)
               \/ \E k \in 1..Len(undated) :
                      k <= Len(stamps) /\ x = stamps[k] \o " " \o undated[k]

EditRenormalizesRemainder ==
    last.op = "edit_tag" =>
        IF ~last.wrote
        THEN file = last.pre
        ELSE IF Len(last.after) = 0 /\ \A i \in 1..Len(NonMatching) :
                                          Len(NonMatching[i]) = 0
             THEN file = "\n"
             ELSE Renormalized(NonMatching, last.after, last.stamps,
                               read(file))

\* An edit has written the file where the remainder held an undated line and
\* a line bearing another tag and was not in sorted order, where another
\* command had changed the file while the editor was open, and where the
\* date changed between the reads of the clock for two occurrences of one
\* undated line, which the file now holds under both dates.
EditRenormalizesWitness ==
    /\ last.op = "edit_tag"
    /\ last.wrote
    /\ last.pre # last.src
    /\ \E i, j \in 1..Len(NonMatching) :
           /\ i # j
           /\ NonMatching[i] = NonMatching[j]
           /\ Len(NonMatching[i]) > 0
           /\ \A d \in Dates : d \o " " \o NonMatching[i] \in SetOf(read(file))
    /\ Len(NonMatching) >= 2
    /\ ~Ascending(NonMatching)
    /\ \E i \in 1..Len(NonMatching) :
           /\ Len(NonMatching[i]) > 0
           /\ ~DATE_PATTERN(NonMatching[i])
           /\ Len(TAG_PATTERN(NonMatching[i])) > 0

\* C10: count_changes is 0 whenever after holds the lines of before in some
\* order; edit <tag> reports 0 changes when the editor leaves the extracted
\* lines as they were.
EditUnchangedZeroChanges ==
    (last.op = "edit_tag" /\ last.wrote) =>
        /\ (/\ Len(last.before) = Len(last.after)
            /\ \A x \in SetOf(last.before) \cup SetOf(last.after) :
                   Count(x, last.before) = Count(x, last.after))
               => last.changes = 0
        /\ last.edited = last.tmp => last.changes = 0

(***************************************************************************)
(* SpecIO: the commands that write a file with write(), where the          *)
(* environment may let a write fail after open(filename, "w") has          *)
(* truncated the file.                                                     *)
(***************************************************************************)
IOFiles == { "2024-01-02 b @t\n2024-01-01 a\n", "c @u\n" }

InitIO ==
    /\ file \in IOFiles
    /\ exists = TRUE
    /\ now \in Dates
    /\ leftF = "a\nb\n"
    /\ rootF = "a\n"
    /\ rightF = "b\nc\n"
    /\ raw = <<>>
    /\ term = <<0, 0>>
    /\ editors = NoEditors
    /\ started = 0
    /\ last = NoOp

NextIO ==
    \/ \E n \in 0..(Len(read(file)) + 1) : rm(n, 0..MaxCut)
    \/ norm_cmd(0..MaxCut)
    \/ \E tag \in Tags : edit_tag(tag, 0..MaxCut)
    \/ edit_tag_return(0..MaxCut)
    \/ merge(0..MaxCut)

SpecIO == InitIO /\ [][NextIO]_vars

\* C4: a command that writes the task file either completes, and the file
\* holds the new content, or fails, and the file holds the content it had.
WriteAllOrNothing ==
    (last.op \in {"rm", "norm_cmd", "edit_tag", "merge"} /\ last.wrote) =>
        LET target == IF last.op = "merge" THEN leftF ELSE file
        IN  IF last.ok THEN target = last.new ELSE target = last.pre

(***************************************************************************)
(* The tag overview.                                                       *)
(***************************************************************************)
\* The loop of number(): lines i.. of `lines`, each behind its number
\* right-aligned to width w.
RECURSIVE number_from(_, _, _)
number_from(lines, i, w) ==
    IF i > Len(lines) THEN <<>>
    ELSE <<rjust(Str(i), w) \o " " \o lines[i]>> \o number_from(lines, i + 1, w)

number(lines) == number_from(lines, 1, Len(Str(Len(lines))))

\* What _get_tag_dict's loop appends to tasks_by_tags[tag] for one task whose
\* tags are `tags`: the task once for every time the tag was found, and once
\* under "unfiled" when no tag was found.
RECURSIVE Times(_, _)
Times(x, n) == IF n <= 0 THEN <<>> ELSE <<x>> \o Times(x, n - 1)

tag_appends(task, tags, tag) ==
    Times(rstrip(task),
          Count(tag, tags) + (IF Len(tags) = 0 /\ tag = "unfiled" THEN 1 ELSE 0))

RECURSIVE tasks_of(_, _)
tasks_of(tasks, tag) ==
    IF Len(tasks) = 0 THEN <<>>
    ELSE tag_appends(Head(tasks), TAG_PATTERN(Head(tasks)), tag)
             \o tasks_of(Tail(tasks), tag)

\* The keys _get_tag_dict(tasks) has.
RECURSIVE tag_keys(_)
tag_keys(tasks) ==
    IF Len(tasks) = 0 THEN {}
    ELSE (IF Len(TAG_PATTERN(Head(tasks))) = 0
          THEN {"unfiled"} ELSE SetOf(TAG_PATTERN(Head(tasks))))
             \cup tag_keys(Tail(tasks))

_get_tag_dict(tasks) == [tag \in tag_keys(tasks) |-> tasks_of(tasks, tag)]

\* A _shorten that returns every line as it is.
_shorten_none(line, symbol, max_width) == line

\* raise ValueError: a value that no str is equal to.
ValueError == [raised |-> "ValueError"]

\* The guard of _shorten.
_shorten_raises(symbol, max_width) == Len(symbol) > max_width

_shorten(line, symbol, max_width) ==
    IF _shorten_raises(symbol, max_width) THEN ValueError
    ELSE IF Len(line) > max_width
         THEN SubSeq(line, 1, max_width - Len(symbol)) \o symbol
         ELSE line

\* sorted() of a set of str.
RECURSIVE sorted_keys(_)
sorted_keys(S) ==
    IF S = {} THEN <<>>
    ELSE LET x == CHOOSE y \in S : \A z \in S : ~StrLess(z, y)
         IN  <<x>> \o sorted_keys(S \ {x})

\* math.ceil(a / b) for b > 0.
ceil_div(a, b) == (a + b - 1) \div b

\* header, as tag_overview builds it.
overview_header(term_x) ==
    LET header == Rep("-", term_x \div 2) \o "TAGS"
    IN  header \o Rep("-", term_x - Len(header))

\* The lines of one cell: heading, underline and tasks, cut and padded to h
\* lines, each shortened and padded to w characters.
cell_lines(tag, lines, w, h) ==
    LET heading == tag \o ": " \o Str(Len(lines))
        all == <<heading, Rep("-", Len(heading))>> \o lines
        cut == SubSeq(all, 1, IF Len(all) < h THEN Len(all) ELSE h)
    IN  [i \in 1..h |->
            ljust(_shorten(IF i <= Len(cut) THEN cut[i] ELSE "", "~", w - 1), w)]

\* sum(cells, []) of column c (from 0): cells c, c + n_x, ... of cells_lines,
\* each followed by "".
RECURSIVE column_of(_, _, _)
column_of(cells_lines, i, n_x) ==
    IF i > Len(cells_lines) THEN <<>>
    ELSE cells_lines[i] \o <<"">> \o column_of(cells_lines, i + n_x, n_x)

\* zip_longest(*column_lines, fillvalue) joined row by row.
zipped_rows(column_lines, fill) ==
    LET longest == CHOOSE n \in {Len(column_lines[c]) : c \in 1..Len(column_lines)} :
                       \A c \in 1..Len(column_lines) : Len(column_lines[c]) <= n
    IN  [r \in 1..longest |->
            Join([c \in 1..Len(column_lines) |->
                     IF r <= Len(column_lines[c]) THEN column_lines[c][r] ELSE fill],
                 "")]

\* final_lines of tag_overview, for n_x > 0 and a grouping that is not empty.
overview_lines(keys, lines_by_tags, n_x, w, h) ==
    LET cells_lines == [i \in 1..Len(keys) |->
                           cell_lines(keys[i], lines_by_tags[keys[i]], w, h)]
        column_lines == [c \in 1..n_x |-> column_of(cells_lines, c, n_x)]
        rows == zipped_rows(column_lines, Rep(" ", w))
    IN  [cells |-> cells_lines, final |-> SubSeq(rows, 1, Len(rows) - 1)]

\* h of tag_overview.
cell_height(term_y, n_y) ==
    Max(MIN_CELL_HEIGHT, (term_y - TERM_HEIGHT_OFFSET - (n_y - 1) - 1) \div n_y)

\* What tag_overview raises before it prints, or "": read() raises for a
\* file that does not exist, the divisions by n_x raise for n_x = 0 and
\* ceil(0 / n_x) gives n_y = 0, by which h divides, for a file with no line;
\* _shorten raises for a cell too narrow for its symbol.
overview_raises(n_x, n_tags) ==
    IF ~exists THEN "FileNotFoundError"
    ELSE IF n_x = 0 \/ n_tags = 0 THEN "ZeroDivisionError"
    ELSE IF _shorten_raises("~", (term[1] \div n_x) - 1) THEN "ValueError"
    ELSE ""

tag_overview ==
    Started /\
    \E lines_by_tags \in {_get_tag_dict(number(read(file)))} :
    \E n_x \in {term[1] \div MIN_CELL_WIDTH} :
    \E raises \in {overview_raises(n_x, Cardinality(DOMAIN lines_by_tags))} :
        IF raises # ""
        THEN /\ last' = [op |-> "tag_overview", raised |-> TRUE,
                         out |-> raises]
             /\ UNCHANGED <<file, exists, leftF, rootF, rightF, raw, now,
                            term, editors>>
        ELSE \E n_y \in {ceil_div(Cardinality(DOMAIN lines_by_tags), n_x)} :
             \E w \in {term[1] \div n_x} :
             \E h \in {cell_height(term[2], n_y)} :
             \E grid \in {overview_lines(sorted_keys(DOMAIN lines_by_tags),
                                         lines_by_tags, n_x, w, h)} :
                 /\ last' = [op |-> "tag_overview", raised |-> FALSE,
                             tags |-> Cardinality(DOMAIN lines_by_tags),
                             n_x |-> n_x, n_y |-> n_y, w |-> w, h |-> h,
                             cells |-> grid.cells,
                             out |-> overview_header(term[1])
                                         \o Join(grid.final, "\n") \o "\n"]
                 /\ UNCHANGED <<file, exists, leftF, rootF, rightF, raw, now,
                                term, editors>>

(***************************************************************************)
(* SpecGrid: the overview of each of the files below on terminals of the   *)
(* sizes below; the terminal may be resized between two overviews.         *)
(***************************************************************************)
GridFiles ==
    { "",
      "2024-01-01 call the dentist @t\n",
      "2024-01-01 a @t\nb @u\nc\n",
      "2024-01-01 a @t @u\n2024-01-02 buy milk and a loaf of bread @u\n",
      "a @t\nb @u\nc @x\nd @y\n2024-01-02 buy milk and a loaf of bread\n",
      "a @t\nb @t\nc @t\nd @t\ne @t\nf @t\na @t\nb @t\nc @t\nd @t\n" }

TermWidths == { 0, 20, 30, 45, 60, 75, 95 }

TermHeights == { 12, 30 }

\* TODO_FILE holds one of GridFiles, or there is no such file.
InitGrid ==
    /\ \/ file \in GridFiles /\ exists = TRUE
       \/ file = "" /\ exists = FALSE
    /\ term \in TermWidths \X TermHeights
    /\ now \in Dates
    /\ leftF = ""
    /\ rootF = ""
    /\ rightF = ""
    /\ raw = <<>>
    /\ editors = NoEditors
    /\ started = 0
    /\ last = NoOp

NextGrid == tag_overview

SpecGrid == InitGrid /\ [][NextGrid]_vars

\* str.split("\n")
RECURSIVE split_at(_, _)
split_nl(s) == split_at(s, FirstNL(s))
split_at(s, k) ==
    IF k = 0 THEN <<s>>
    ELSE <<SubSeq(s, 1, k - 1)>> \o split_nl(SubSeq(s, k + 1, Len(s)))

\* The rows the overview has printed.
EmittedRows ==
    LET rows == split_nl(last.out) IN SubSeq(rows, 1, Len(rows) - 1)

\* C7 as claimed: every row the overview emits has exactly `width`
\* characters.
GridRowsExactWidth ==
    (last.op = "tag_overview" /\ ~last.raised) =>
        \A r \in 1..Len(EmittedRows) : Len(EmittedRows[r]) = term[1]

\* C7 as amended: the overview raises, and prints nothing, exactly when there
\* is no file, the terminal has fewer than MIN_CELL_WIDTH columns or the file
\* has no line; otherwise every text row of a cell has exactly
\* w = width div n_x characters, where n_x = width div MIN_CELL_WIDTH; the
\* first emitted row is the header of exactly `width` characters followed on
\* the same line by the first grid row; every further row that carries cell
\* text has exactly n_x * w characters, which is at most `width`, and the
\* separator rows between the cells of a column are empty.
GridRowWidths ==
    last.op = "tag_overview" =>
        /\ last.raised <=> \/ ~exists
                           \/ term[1] < MIN_CELL_WIDTH
                           \/ Len(read(file)) = 0
        /\ ~last.raised =>
               LET n_x == term[1] \div MIN_CELL_WIDTH
                   w == term[1] \div n_x
                   rows == EmittedRows
               IN  /\ \A i \in 1..Len(last.cells) :
                          /\ Len(last.cells[i]) = last.h
                          /\ \A k \in 1..Len(last.cells[i]) :
                                 Len(last.cells[i][k]) = w
                   /\ n_x * w <= term[1]
                   /\ Len(rows) = last.n_y * (last.h + 1) - 1
                   /\ Len(rows[1]) = term[1] + n_x * w
                   /\ \A r \in 2..Len(rows) :
                          Len(rows[r]) =
                              IF r % (last.h + 1) = 0 THEN 0 ELSE n_x * w

\* An overview has been printed on a terminal whose width is no multiple of
\* the number of columns, with a task longer than a cell is wide, more tags
\* than columns and a last grid row that does not fill every column.
GridRowWidthsWitness ==
    /\ last.op = "tag_overview"
    /\ ~last.raised
    /\ term[1] % last.n_x # 0
    /\ last.n_x >= 2
    /\ last.n_y >= 2
    /\ last.tags % last.n_x # 0
    /\ \E i \in 1..Len(last.cells) : \E k \in 1..last.h :
           Ch(last.cells[i][k], last.w - 1) = "~"
====
